---- MODULE Spec2Model ----
(***************************************************************************)
(* A model of the structured-record layer of pyrlp:                        *)
(*   rlp/sedes/serializable.py  (records, schemas, changesets)             *)
(*   rlp/exceptions.py          (record-level error attribution)           *)
(*                                                                         *)
(* Python values are modelled as records of one shape, [k, n, items]:      *)
(*   k = "int"    the integer n                                            *)
(*   k = "list"   the mutable sequence   [items[1], ..., items[m]]         *)
(*   k = "tuple"  the immutable sequence (items[1], ..., items[m])         *)
(*   k = "None"   None                                                     *)
(* so that Python's == on these values is structural equality of the      *)
(* model values (a list never equals a tuple, as in Python).               *)
(***************************************************************************)
EXTENDS Integers, Sequences, FiniteSets, TLC

VARIABLES
    registry,   \* the record types declared so far: class name -> _meta
    objs,       \* the record instances alive: slot -> instance (or NoObj)
    cs,         \* the one changeset: [original, state, diff] of BaseChangeset
    pc,         \* position of the caller around the `with` scope
    ret         \* outcome of the last call: what was called, with what, and the result

vars == <<registry, objs, cs, pc, ret>>

----------------------------------------------------------------------------
(* Bounds of the model.                                                    *)

\* deepest nesting of sequence values given to a field
MaxDepth == 2
\* number of record types a declaration run creates
MaxClasses == 3
\* longest `fields` list a declaration is given
MaxFields == 2

----------------------------------------------------------------------------
(* Python values.                                                          *)

IntV(i) == [k |-> "int", n |-> i, items |-> <<>>]
ListV(s) == [k |-> "list", n |-> 0, items |-> s]
TupleV(s) == [k |-> "tuple", n |-> 0, items |-> s]
NoneV == [k |-> "None", n |-> 0, items |-> <<>>]

SeqsUpTo(S, m) == UNION {[1..j -> S] : j \in 0..m}

\* the item sequences of the sequence values of one more level of nesting
\* over V: empty, one item of V, or two integers
ItemSeqs(V, A) == {<<>>} \cup {<<v>> : v \in V} \cup {<<a, b>> : a, b \in A}

\* the integers field values are drawn from; -1 and -2 are the two small
\* integers CPython hashes to the same number
Atoms == {IntV(-2), IntV(-1), IntV(1)}

RECURSIVE ValuesOfDepth(_)
ValuesOfDepth(d) ==
    IF d = 0 THEN Atoms
    ELSE LET V == ValuesOfDepth(d - 1)
         IN  V \cup {ListV(s) : s \in ItemSeqs(V, Atoms)}
               \cup {TupleV(s) : s \in ItemSeqs(V, Atoms)}

Values == ValuesOfDepth(MaxDepth)

IsSeqV(v) == v.k \in {"list", "tuple"}

\* Python's == on the modelled values
PyEq(left, right) == left = right

\* _eq: equality that lets a list equal a tuple of equivalent elements
RECURSIVE _eq(_, _)
_eq(left, right) ==
    IF IsSeqV(left) /\ IsSeqV(right)
    THEN /\ Len(left.items) = Len(right.items)
         /\ \A i \in 1..Len(left.items) : _eq(left.items[i], right.items[i])
    ELSE PyEq(left, right)

\* make_immutable: a list becomes the tuple of its items made immutable;
\* every other value, a tuple included, is returned as it is
RECURSIVE make_immutable(_)
make_immutable(value) ==
    IF value.k = "list"
    THEN TupleV([i \in 1..Len(value.items) |-> make_immutable(value.items[i])])
    ELSE value

\* whether a mutable sequence occurs anywhere inside a value
RECURSIVE HasList(_)
HasList(v) ==
    \/ v.k = "list"
    \/ \E i \in 1..Len(v.items) : HasList(v.items[i])

----------------------------------------------------------------------------
(* Record schemas: SerializableBase.__new__.                              *)
(* A class object is [bases, has_meta, fields]; `fields` is the tuple of   *)
(* (name, sedes) pairs of its _meta, a pair being [name, sedes].  The      *)
(* private attribute names of _mk_field_attrs are one per field and        *)
(* pairwise distinct, so an instance's storage is modelled as the sequence *)
(* of its values in field order.                                           *)

\* the characters of the strings used as field names ("" has none)
NameChars(name) ==
    CASE name = "x" -> <<"x">>
      [] name = "y" -> <<"y">>
      [] name = "z" -> <<"z">>
      [] name = "_x" -> <<"_", "x">>
      [] name = "x1" -> <<"x", "1">>
      [] name = "1x" -> <<"1", "x">>
      [] name = "x-y" -> <<"x", "-", "y">>
      [] name = "" -> <<>>

IsDigitChar(c) == c \in {"0", "1", "2", "3", "4", "5", "6", "7", "8", "9"}
IsWordChar(c) == IsDigitChar(c) \/ c \in {"x", "y", "z", "_"}

\* IDENTIFIER_REGEX = ^[^\d\W]\w*\Z
IDENTIFIER_REGEX_match(chars) ==
    /\ Len(chars) >= 1
    /\ IsWordChar(chars[1]) /\ ~IsDigitChar(chars[1])
    /\ \A i \in 2..Len(chars) : IsWordChar(chars[i])

\* every field name of the model is a str, so the isinstance test passes
_is_valid_identifier(value) == IDENTIFIER_REGEX_match(NameChars(value))

\* _get_duplicates: the items that occur more than once
_get_duplicates(values) ==
    {values[i] : i \in {j \in DOMAIN values :
                          \E h \in DOMAIN values : h # j /\ values[h] = values[j]}}

FieldNames(fields) == [i \in DOMAIN fields |-> fields[i].name]
FieldSedes(fields) == [i \in DOMAIN fields |-> fields[i].sedes]
SeqRange(s) == {s[i] : i \in DOMAIN s}

NoClass == [bases |-> <<>>, has_meta |-> FALSE, fields |-> <<>>]

\* `b for b in bases if isinstance(b, SerializableBase)`: the classes of the
\* registry are the instances of the metaclass, any other base is a plain class
serializable_bases_of(reg, bases) == SelectSeq(bases, LAMBDA b : b \in DOMAIN reg)

\* the field names of the first parent schema only
parent_field_names_of_first(reg, serializable_bases) ==
    IF Len(serializable_bases) > 0 /\ reg[serializable_bases[1]].has_meta
    THEN SeqRange(FieldNames(reg[serializable_bases[1]].fields))
    ELSE {}

\* parent_field_names: the field names of all the parent classes that have
\* a _meta
parent_field_names_of(reg, serializable_bases) ==
    UNION {SeqRange(FieldNames(reg[serializable_bases[i]].fields)) :
             i \in {j \in DOMAIN serializable_bases :
                      reg[serializable_bases[j]].has_meta}}

\* SerializableBase.__new__(cls, name, bases, attrs); `declares_fields` is
\* 'fields' in attrs and `declared` is attrs['fields'].  The result is the
\* error raised ("ok" for none) and the class created.
SerializableBase__new__(reg, bases, declares_fields, declared) ==
    LET serializable_bases == serializable_bases_of(reg, bases)
        has_multiple_serializable_parents == Len(serializable_bases) > 1
        is_serializable_subclass == Len(serializable_bases) > 0
        parent_serializable == reg[serializable_bases[1]]
        fields == IF declares_fields THEN declared
                  ELSE IF parent_serializable.has_meta
                       THEN parent_serializable.fields
                       ELSE <<>>
        field_names == FieldNames(fields)
        duplicate_field_names == _get_duplicates(field_names)
        invalid_field_names ==
            {field_name \in SeqRange(field_names) : ~_is_valid_identifier(field_name)}
        parent_field_names == parent_field_names_of(reg, serializable_bases)
        missing_fields == parent_field_names \ SeqRange(field_names)
    IN  IF ~is_serializable_subclass
        THEN [err |-> "ok", cls |-> [bases |-> bases, has_meta |-> FALSE, fields |-> <<>>]]
        ELSE IF ~declares_fields /\ has_multiple_serializable_parents
        THEN [err |-> "TypeError: multiple parents without fields", cls |-> NoClass]
        ELSE IF duplicate_field_names # {}
        THEN [err |-> "TypeError: duplicated fields", cls |-> NoClass]
        ELSE IF invalid_field_names # {}
        THEN [err |-> "TypeError: invalid identifiers", cls |-> NoClass]
        ELSE IF missing_fields # {}
        THEN [err |-> "TypeError: missing parent fields", cls |-> NoClass]
        ELSE [err |-> "ok", cls |-> [bases |-> bases, has_meta |-> TRUE, fields |-> fields]]

\* `class Serializable(BaseSerializable, metaclass=SerializableBase)`: none of
\* its bases is an instance of the metaclass, so it is created without _meta
SerializableRoot == SerializableBase__new__(<<>>, <<"BaseSerializable">>, FALSE, <<>>).cls

EmptyRegistry == [c \in {"Serializable"} |-> SerializableRoot]

----------------------------------------------------------------------------
(* Merging positional and named arguments.  A dict is a function from its  *)
(* keys; a call result is [err, val] with err = "ok" when nothing is       *)
(* raised.                                                                 *)

EmptyDict == [key \in {} |-> NoneV]
Min(a, b) == IF a <= b THEN a ELSE b

\* validate_args_and_kwargs without its test for a name given both ways
validate_without_duplicate_test(args, kwargs, arg_names, allow_missing) ==
    LET needed_kwargs == SubSeq(arg_names, Len(args) + 1, Len(arg_names))
        unknown_kwargs == DOMAIN kwargs \ SeqRange(arg_names)
        missing_kwargs == SeqRange(needed_kwargs) \ DOMAIN kwargs
    IN  IF _get_duplicates(arg_names) # {} THEN "TypeError: Duplicate argument names"
        ELSE IF unknown_kwargs # {} THEN "TypeError: Unknown kwargs"
        ELSE IF ~allow_missing /\ missing_kwargs # {} THEN "TypeError: Missing kwargs"
        ELSE "ok"

\* validate_args_and_kwargs: the error raised, "ok" for none
validate_args_and_kwargs(args, kwargs, arg_names, allow_missing) ==
    LET duplicate_arg_names == _get_duplicates(arg_names)
        needed_kwargs == SubSeq(arg_names, Len(args) + 1, Len(arg_names))
        used_kwargs == SeqRange(SubSeq(arg_names, 1, Min(Len(args), Len(arg_names))))
        duplicate_kwargs == used_kwargs \cap DOMAIN kwargs
        unknown_kwargs == DOMAIN kwargs \ SeqRange(arg_names)
        missing_kwargs == SeqRange(needed_kwargs) \ DOMAIN kwargs
    IN  IF duplicate_arg_names # {} THEN "TypeError: Duplicate argument names"
        ELSE IF duplicate_kwargs # {} THEN "TypeError: Duplicate kwargs"
        ELSE IF unknown_kwargs # {} THEN "TypeError: Unknown kwargs"
        ELSE IF ~allow_missing /\ missing_kwargs # {} THEN "TypeError: Missing kwargs"
        ELSE "ok"

\* merge_kwargs_to_args: the positional values, then the value named for
\* each remaining argument name (a KeyError when it is not named)
merge_kwargs_to_args(args, kwargs, arg_names, allow_missing) ==
    LET err == validate_args_and_kwargs(args, kwargs, arg_names, allow_missing)
        needed_kwargs == SubSeq(arg_names, Len(args) + 1, Len(arg_names))
    IN  IF err # "ok" THEN [err |-> err, val |-> <<>>]
        ELSE IF SeqRange(needed_kwargs) \ DOMAIN kwargs # {}
        THEN [err |-> "KeyError", val |-> <<>>]
        ELSE [err |-> "ok",
              val |-> args \o [i \in 1..Len(needed_kwargs) |-> kwargs[needed_kwargs[i]]]]

\* merge_args_to_kwargs pairing the positional values with the argument
\* names taken from the end
merge_args_to_kwargs_reversed(args, kwargs, arg_names, allow_missing) ==
    LET err == validate_args_and_kwargs(args, kwargs, arg_names, allow_missing)
        zipped == 1..Min(Len(args), Len(arg_names))
        positional == {arg_names[Len(arg_names) + 1 - i] : i \in zipped}
    IN  IF err # "ok" THEN [err |-> err, val |-> EmptyDict]
        ELSE [err |-> "ok",
              val |-> [name \in DOMAIN kwargs \cup positional |->
                         IF name \in positional
                         THEN args[CHOOSE i \in zipped : arg_names[Len(arg_names) + 1 - i] = name]
                         ELSE kwargs[name]]]

\* merge_args_to_kwargs: the named values, then each positional value under
\* the argument name of its position (zip stops at the shorter of the two)
merge_args_to_kwargs(args, kwargs, arg_names, allow_missing) ==
    LET err == validate_args_and_kwargs(args, kwargs, arg_names, allow_missing)
        zipped == 1..Min(Len(args), Len(arg_names))
        positional == {arg_names[i] : i \in zipped}
    IN  IF err # "ok" THEN [err |-> err, val |-> EmptyDict]
        ELSE [err |-> "ok",
              val |-> [name \in DOMAIN kwargs \cup positional |->
                         IF name \in positional
                         THEN args[CHOOSE i \in zipped : arg_names[i] = name]
                         ELSE kwargs[name]]]

----------------------------------------------------------------------------
(* Record instances: BaseSerializable.  An instance is [cls, vals,         *)
(* _hash_cache]: the name of its class, its stored field values in field   *)
(* order, and the cached hash (NoneV while not computed).                  *)

NoObj == [cls |-> "", vals |-> <<>>, _hash_cache |-> NoneV]

\* BaseSerializable.__init__ on a new instance of class `cls`
BaseSerializable__init__(reg, cls, args, kwargs) ==
    LET field_names == FieldNames(reg[cls].fields)
        merged == IF DOMAIN kwargs # {}
                  THEN merge_kwargs_to_args(args, kwargs, field_names, FALSE)
                  ELSE [err |-> "ok", val |-> args]
        field_values == merged.val
    IN  IF merged.err # "ok" THEN [err |-> merged.err, obj |-> NoObj]
        ELSE IF Len(field_values) # Len(field_names)
        THEN [err |-> "TypeError: Argument count mismatch", obj |-> NoObj]
        ELSE [err |-> "ok",
              obj |-> [cls |-> cls,
                       vals |-> [i \in 1..Len(field_values) |->
                                   make_immutable(field_values[i])],
                       _hash_cache |-> NoneV]]

\* BaseSerializable.__getitem__ with a field name (the property getter)
FieldIndex(reg, cls, name) ==
    CHOOSE i \in DOMAIN reg[cls].fields : reg[cls].fields[i].name = name
GetField(reg, obj, name) == obj.vals[FieldIndex(reg, obj.cls, name)]

\* Python's hash().  An int hashes to itself, except that -1 hashes to -2
\* (the integers of the model are far below the modulus 2^61 - 1); a list is
\* unhashable; a tuple's hash is a function of its length and its items'
\* hashes, kept here as the sequence of those hashes (no further collisions),
\* and raises when an item is unhashable.
HashError == [k |-> "TypeError", n |-> 0, items |-> <<>>]
RECURSIVE PyHash(_)
PyHash(v) ==
    CASE v.k = "int" -> IntV(IF v.n = -1 THEN -2 ELSE v.n)
      [] v.k = "list" -> HashError
      [] v.k = "tuple" ->
            LET hs == [i \in 1..Len(v.items) |-> PyHash(v.items[i])]
            IN  IF \E i \in 1..Len(hs) : hs[i] = HashError
                THEN HashError
                ELSE [k |-> "hash", n |-> Len(hs), items |-> hs]
      [] OTHER -> IntV(0)

\* hash(tuple(self)) leaving the last field out
hash_tuple_self_without_last(self) ==
    PyHash(TupleV(SubSeq(self.vals, 1, Len(self.vals) - 1)))

\* hash(tuple(self)): the hash of the tuple of the field values in order
hash_tuple_self(self) == PyHash(TupleV(self.vals))

\* BaseSerializable.__getstate__: the instance state with the cached hash
\* removed; the copy is changed, the instance is not
BaseSerializable__getstate__(self) == [self EXCEPT !._hash_cache = NoneV]

\* BaseSerializable.__hash__: [err, val, self], self being the instance after
\* the call (the cache is written only when hash(tuple(self)) returns)
BaseSerializable__hash__(self) ==
    IF self._hash_cache = NoneV
    THEN LET h == PyHash(TupleV(self.vals))
         IN  IF h = HashError
             THEN [err |-> "TypeError: unhashable type", val |-> NoneV, self |-> self]
             ELSE [err |-> "ok", val |-> h, self |-> [self EXCEPT !._hash_cache = h]]
    ELSE [err |-> "ok", val |-> self._hash_cache, self |-> self]

\* BaseSerializable.__eq__ on the instances in slots i and j of a store:
\* isinstance(other, Serializable) and hash(self) == hash(other).  Every
\* instance of the store is a Serializable.  [err, val, store]
BaseSerializable__eq__(store, i, j) ==
    LET h1 == BaseSerializable__hash__(store[i])
        store1 == [store EXCEPT ![i] = h1.self]
        h2 == BaseSerializable__hash__(store1[j])
        store2 == [store1 EXCEPT ![j] = h2.self]
    IN  IF h1.err # "ok" THEN [err |-> h1.err, val |-> FALSE, store |-> store1]
        ELSE IF h2.err # "ok" THEN [err |-> h2.err, val |-> FALSE, store |-> store2]
        ELSE [err |-> "ok", val |-> (h1.val = h2.val), store |-> store2]

----------------------------------------------------------------------------
(* The record types the instance-level runs work with, declared through    *)
(* the metaclass: Empty(), A(x, y), B(x, y) with A's fields but another    *)
(* type, S(x) with one list-valued field, and T(x, y, z).                  *)

Field(name, sedes) == [name |-> name, sedes |-> sedes]

\* the class statement: the registry with the class bound to `name` when
\* the metaclass returns it
Declare(reg, name, bases, declares_fields, declared) ==
    LET made == SerializableBase__new__(reg, bases, declares_fields, declared)
    IN  IF made.err = "ok" THEN [c \in DOMAIN reg \cup {name} |->
                                   IF c = name THEN made.cls ELSE reg[c]]
        ELSE reg

RecordRegistry ==
    LET r1 == Declare(EmptyRegistry, "Empty", <<"Serializable">>, TRUE, <<>>)
        r2 == Declare(r1, "A", <<"Serializable">>, TRUE,
                      <<Field("x", "big_endian_int"), Field("y", "big_endian_int")>>)
        r3 == Declare(r2, "B", <<"Serializable">>, TRUE,
                      <<Field("x", "big_endian_int"), Field("y", "big_endian_int")>>)
        r4 == Declare(r3, "S", <<"Serializable">>, TRUE,
                      <<Field("x", "int_list")>>)
        r5 == Declare(r4, "T", <<"Serializable">>, TRUE,
                      <<Field("x", "big_endian_int"), Field("y", "int_list"),
                        Field("z", "big_endian_int")>>)
    IN  r5

Slots == {1, 2}
NoObjs == [s \in Slots |-> NoObj]
NoCs == [original |-> 0, state |-> "", diff |-> EmptyDict]
NoRet == [op |-> ""]

----------------------------------------------------------------------------
(* Construction run: records are constructed from positional and named     *)
(* arguments.                                                              *)

\* argument values of the calls with several arguments
ArgVals == {IntV(1), ListV(<<IntV(1), IntV(-1)>>)}
\* keys of the named arguments: the field names and one that is no field
KwargKeys == {"x", "y", "zz"}
Dicts(keys, vals) == UNION {[ks -> vals] : ks \in SUBSET keys}

\* the (class, args, kwargs) a constructor call is made with: every mix of
\* up to three positional and three named arguments for Empty and A, and
\* every value of the model as the one field of S, positionally or by name
ConsCalls ==
    {[cls |-> c, args |-> a, kwargs |-> kw] :
        c \in {"Empty", "A"}, a \in SeqsUpTo(ArgVals, 3), kw \in Dicts(KwargKeys, ArgVals)}
    \cup {[cls |-> "S", args |-> <<v>>, kwargs |-> EmptyDict] : v \in Values}
    \cup {[cls |-> "S", args |-> <<>>, kwargs |-> [key \in {"x"} |-> v]] : v \in Values}

InitCons ==
    /\ registry = RecordRegistry
    /\ objs = NoObjs
    /\ cs = NoCs
    /\ pc = "none"
    /\ ret = NoRet

\* r = cls(*args, **kwargs), r being the unbound variable of a slot; a
\* caller whose last construction raised handles that first (Discard)
New(slot, call) ==
    LET made == BaseSerializable__init__(registry, call.cls, call.args, call.kwargs)
    IN  /\ objs[slot] = NoObj
        /\ ret.op = "__init__" => ret.err = "ok"
        /\ objs' = IF made.err = "ok" THEN [objs EXCEPT ![slot] = made.obj] ELSE objs
        /\ ret' = [op |-> "__init__", cls |-> call.cls, args |-> call.args,
                   kwargs |-> call.kwargs, err |-> made.err, obj |-> made.obj]
        /\ UNCHANGED <<registry, cs, pc>>

\* the caller drops the outcome of its last call and the records it holds
Discard ==
    /\ ret.op # "discard"
    /\ objs' = NoObjs
    /\ ret' = [op |-> "discard"]
    /\ UNCHANGED <<registry, cs, pc>>

NextCons ==
    \/ \E call \in ConsCalls : New(1, call)
    \/ Discard

SpecCons == InitCons /\ [][NextCons]_vars

----------------------------------------------------------------------------
(* Comparison run: two records are constructed and compared with ==.       *)

\* field values of the two-field records compared: the two integers with
\* one hash, and a list and a tuple of the same items
EqVals == {IntV(-1), IntV(-2), ListV(<<IntV(1), IntV(-1)>>), TupleV(<<IntV(1), IntV(-1)>>)}

EqCalls ==
    {[cls |-> c, args |-> <<a, b>>, kwargs |-> EmptyDict] :
        c \in {"A", "B"}, a \in EqVals, b \in EqVals}
    \cup {[cls |-> "S", args |-> <<v>>, kwargs |-> EmptyDict] : v \in Values}
    \cup {[cls |-> "Empty", args |-> <<>>, kwargs |-> EmptyDict]}

\* objs[i] == objs[j]
Eq(i, j) ==
    LET r == BaseSerializable__eq__(objs, i, j)
    IN  /\ objs[i] # NoObj /\ objs[j] # NoObj
        /\ objs' = r.store
        /\ ret' = [op |-> "__eq__", i |-> i, j |-> j, err |-> r.err, val |-> r.val]
        /\ UNCHANGED <<registry, cs, pc>>

NextEq ==
    \/ \E slot \in Slots, call \in EqCalls : New(slot, call)
    \/ \E i, j \in Slots : Eq(i, j)
    \/ Discard

SpecEq == InitCons /\ [][NextEq]_vars

\* what the records of two slots are when they are equal by content: the
\* same concrete type and the same field values, a list and a tuple of equal
\* elements counting as the same
SameTypeAndFields(a, b) ==
    /\ a.cls = b.cls
    /\ Len(a.vals) = Len(b.vals)
    /\ \A n \in DOMAIN a.vals : _eq(a.vals[n], b.vals[n])

\* C1: a == b holds exactly when a and b have the same concrete record type
\* and identical ordered field values; records of different types holding
\* the same field values are not equal.
C1_EqualIffSameTypeAndFields ==
    ret.op = "__eq__" =>
        ((ret.err = "ok" /\ ret.val) <=> SameTypeAndFields(objs[ret.i], objs[ret.j]))

\* the value a constructor call supplies for the i-th field name
Supplied(call, names, i) ==
    IF i <= Len(call.args) THEN call.args[i] ELSE call.kwargs[names[i]]

\* every field name receives exactly one value, and nothing else is given
ExactlyOneValueEach(call, names) ==
    /\ Len(call.args) <= Len(names)
    /\ DOMAIN call.kwargs \subseteq SeqRange(names)
    /\ \A i \in DOMAIN names :
          (i <= Len(call.args)) # (names[i] \in DOMAIN call.kwargs)

\* C7: after construction no stored field value holds a mutable sequence at
\* any depth: every list passed in, also one nested inside a tuple, is stored
\* as a tuple of the same elements.
C7_NoMutableSequenceStored ==
    ret.op = "__init__" /\ ret.err = "ok" =>
        \A i \in DOMAIN objs[1].vals :
            /\ ~HasList(objs[1].vals[i])
            /\ _eq(objs[1].vals[i],
                   Supplied(ret, FieldNames(registry[ret.cls].fields), i))

\* C8: a construction succeeds exactly when every field name receives
\* exactly one value (no name given twice, no unknown key, no missing name,
\* no extra positional value); on success the i-th stored value is the value
\* supplied for the i-th field name, on error no record is produced.
C8_ConstructionArguments ==
    ret.op = "__init__" =>
        LET names == FieldNames(registry[ret.cls].fields)
        IN  /\ (ret.err = "ok") <=> ExactlyOneValueEach(ret, names)
            /\ ret.err = "ok" =>
                 /\ objs[1] = ret.obj
                 /\ objs[1].cls = ret.cls
                 /\ Len(objs[1].vals) = Len(names)
                 /\ \A i \in DOMAIN names :
                       _eq(objs[1].vals[i], Supplied(ret, names, i))
            /\ ret.err # "ok" => ret.obj = NoObj /\ objs[1] = NoObj

\* a record of A built from one positional and one named value, the values
\* differing
C8_Witness ==
    /\ ret.op = "__init__" /\ ret.err = "ok" /\ ret.cls = "A"
    /\ Len(ret.args) = 1 /\ DOMAIN ret.kwargs = {"y"}
    /\ objs[1].vals[1] # objs[1].vals[2]

----------------------------------------------------------------------------
(* Changesets: ChangesetField, BaseChangeset, Changeset, build_changeset.  *)
(* The changeset is [original, state, diff]: the slot of the record it was *)
(* built on (__original__), its ChangesetState (__state__) and the dict of *)
(* staged values (__diff__).  A method takes the heap (the records and the *)
(* changeset) and returns [err, val, obj, objs, cs]: the error raised       *)
(* ("ok" for none), the value or the record returned, and the heap after   *)
(* the call.                                                               *)

Outcome(err, val, obj, heap_objs, heap_cs) ==
    [err |-> err, val |-> val, obj |-> obj, objs |-> heap_objs, cs |-> heap_cs]

\* ChangesetField.__set__ storing the value on the original record instead
\* of in the changeset's diff
ChangesetField__set__on_original(heap_objs, heap_cs, field, value) ==
    IF heap_cs.state # "OPEN"
    THEN Outcome("AttributeError: Changeset is not active", NoneV, NoObj, heap_objs, heap_cs)
    ELSE Outcome("ok", NoneV, NoObj,
                 [heap_objs EXCEPT ![heap_cs.original].vals[
                     FieldIndex(RecordRegistry, heap_objs[heap_cs.original].cls, field)] = value],
                 heap_cs)

\* BaseChangeset.__exit__ closing without looking at the state
BaseChangeset__exit__always_closing(heap_objs, heap_cs) ==
    IF heap_cs.state = "OPEN"
    THEN Outcome("ok", NoneV, NoObj, heap_objs, [heap_cs EXCEPT !.state = "CLOSED"])
    ELSE Outcome("ValueError: not in the OPEN state", NoneV, NoObj, heap_objs, heap_cs)

\* ChangesetField.__get__ reading the original record even when a value is
\* staged
ChangesetField__get__original_only(reg, heap_objs, heap_cs, field) ==
    IF heap_cs.state # "OPEN"
    THEN Outcome("AttributeError: Changeset is not active", NoneV, NoObj, heap_objs, heap_cs)
    ELSE Outcome("ok", GetField(reg, heap_objs[heap_cs.original], field), NoObj,
                 heap_objs, heap_cs)

\* BaseChangeset.close closing from any state
BaseChangeset_close_unguarded(heap_objs, heap_cs) ==
    Outcome("ok", NoneV, NoObj, heap_objs, [heap_cs EXCEPT !.state = "CLOSED"])

\* ChangesetField.__get__ on a changeset instance
ChangesetField__get__(reg, heap_objs, heap_cs, field) ==
    IF heap_cs.state # "OPEN"
    THEN Outcome("AttributeError: Changeset is not active", NoneV, NoObj, heap_objs, heap_cs)
    ELSE IF field \in DOMAIN heap_cs.diff
    THEN Outcome("ok", heap_cs.diff[field], NoObj, heap_objs, heap_cs)
    ELSE Outcome("ok", GetField(reg, heap_objs[heap_cs.original], field), NoObj,
                 heap_objs, heap_cs)

\* ChangesetField.__set__
ChangesetField__set__(heap_objs, heap_cs, field, value) ==
    IF heap_cs.state # "OPEN"
    THEN Outcome("AttributeError: Changeset is not active", NoneV, NoObj, heap_objs, heap_cs)
    ELSE Outcome("ok", NoneV, NoObj, heap_objs,
                 [heap_cs EXCEPT !.diff = [name \in DOMAIN heap_cs.diff \cup {field} |->
                                             IF name = field THEN value
                                             ELSE heap_cs.diff[name]]])

\* BaseChangeset.__init__ (`changes or {}` is the dict given, or a new
\* empty one)
BaseChangeset__init__(obj_slot, changes) ==
    [original |-> obj_slot, state |-> "INITIALIZED", diff |-> changes]

\* BaseChangeset.build_rlp
BaseChangeset_build_rlp(reg, heap_objs, heap_cs) ==
    IF heap_cs.state = "OPEN"
    THEN LET original == heap_objs[heap_cs.original]
             names == FieldNames(reg[original.cls].fields)
             field_kwargs == [name \in SeqRange(names) |->
                                IF name \in DOMAIN heap_cs.diff
                                THEN heap_cs.diff[name]
                                ELSE GetField(reg, original, name)]
             made == BaseSerializable__init__(reg, original.cls, <<>>, field_kwargs)
         IN  Outcome(made.err, NoneV, made.obj, heap_objs, heap_cs)
    ELSE Outcome("ValueError: not in the OPEN state", NoneV, NoObj, heap_objs, heap_cs)

\* BaseChangeset.open
BaseChangeset_open(heap_objs, heap_cs) ==
    IF heap_cs.state = "INITIALIZED"
    THEN Outcome("ok", NoneV, NoObj, heap_objs, [heap_cs EXCEPT !.state = "OPEN"])
    ELSE Outcome("ValueError: not in the INITIALIZED state", NoneV, NoObj, heap_objs, heap_cs)

\* BaseChangeset.close
BaseChangeset_close(heap_objs, heap_cs) ==
    IF heap_cs.state = "OPEN"
    THEN Outcome("ok", NoneV, NoObj, heap_objs, [heap_cs EXCEPT !.state = "CLOSED"])
    ELSE Outcome("ValueError: not in the OPEN state", NoneV, NoObj, heap_objs, heap_cs)

\* BaseChangeset.commit: build_rlp, then close, then return the record
BaseChangeset_commit(reg, heap_objs, heap_cs) ==
    LET built == BaseChangeset_build_rlp(reg, heap_objs, heap_cs)
        closed == BaseChangeset_close(built.objs, built.cs)
    IN  IF built.err # "ok" THEN built
        ELSE IF closed.err # "ok" THEN closed
        ELSE Outcome("ok", NoneV, built.obj, closed.objs, closed.cs)

\* BaseChangeset.__enter__
BaseChangeset__enter__(heap_objs, heap_cs) ==
    IF heap_cs.state = "INITIALIZED"
    THEN BaseChangeset_open(heap_objs, heap_cs)
    ELSE Outcome("ValueError: not in the INITIALIZED state", NoneV, NoObj, heap_objs, heap_cs)

\* BaseChangeset.__exit__: closes an open changeset, whatever the exception
\* it is given, and returns None
BaseChangeset__exit__(heap_objs, heap_cs) ==
    IF heap_cs.state = "OPEN"
    THEN BaseChangeset_close(heap_objs, heap_cs)
    ELSE Outcome("ok", NoneV, NoObj, heap_objs, heap_cs)

\* BaseSerializable.build_changeset(*args, **kwargs) on the record of a
\* slot, with Changeset(obj, changes): [err, cs]
BaseSerializable_build_changeset(reg, heap_objs, obj_slot, args, kwargs) ==
    LET args_as_kwargs ==
            merge_args_to_kwargs(args, kwargs,
                                 FieldNames(reg[heap_objs[obj_slot].cls].fields), TRUE)
    IN  IF args_as_kwargs.err # "ok" THEN [err |-> args_as_kwargs.err, cs |-> NoCs]
        ELSE [err |-> "ok", cs |-> BaseChangeset__init__(obj_slot, args_as_kwargs.val)]

----------------------------------------------------------------------------
(* Changeset run: a changeset is built on the record of slot 1 and used,   *)
(* by direct calls and as the context manager of a `with` statement.  pc   *)
(* is "none" before the with statement, "body" inside it, "after" behind   *)
(* it.  The record commit() returns is bound to slot 2.                    *)

\* values staged in a changeset
CsVals == {IntV(2), ListV(<<IntV(2), IntV(1)>>)}

\* the records a changeset is built on
Originals ==
    {BaseSerializable__init__(RecordRegistry, "A",
                              <<IntV(1), ListV(<<IntV(1), IntV(-1)>>)>>, EmptyDict).obj,
     BaseSerializable__init__(RecordRegistry, "S", <<IntV(1)>>, EmptyDict).obj,
     BaseSerializable__init__(RecordRegistry, "Empty", <<>>, EmptyDict).obj}

CsRet(op, f, arg, out) ==
    [op |-> op, f |-> f, arg |-> arg, args |-> <<>>, kwargs |-> EmptyDict,
     err |-> out.err, val |-> out.val, obj |-> out.obj]

OriginalFieldNames == SeqRange(FieldNames(registry[objs[1].cls].fields))

Init ==
    /\ registry = RecordRegistry
    /\ \E r \in Originals : objs = [NoObjs EXCEPT ![1] = r]
    /\ cs = NoCs
    /\ pc = "none"
    /\ ret = NoRet

\* cs = r.build_changeset(*args, **kwargs), the caller's first statement
BuildChangeset(args, kwargs) ==
    LET built == BaseSerializable_build_changeset(registry, objs, 1, args, kwargs)
    IN  /\ cs = NoCs /\ ret = NoRet
        /\ cs' = built.cs
        /\ ret' = [op |-> "build_changeset", f |-> "", arg |-> NoneV, args |-> args,
                   kwargs |-> kwargs, err |-> built.err, val |-> NoneV, obj |-> NoObj]
        /\ UNCHANGED <<registry, objs, pc>>

\* the heap after a call, and its outcome
Called(op, f, arg, out) ==
    /\ objs' = out.objs
    /\ cs' = out.cs
    /\ ret' = CsRet(op, f, arg, out)
    /\ UNCHANGED registry

\* cs.open()
Open ==
    /\ cs # NoCs
    /\ Called("open", "", NoneV, BaseChangeset_open(objs, cs))
    /\ UNCHANGED pc

\* cs.close()
Close ==
    /\ cs # NoCs
    /\ Called("close", "", NoneV, BaseChangeset_close(objs, cs))
    /\ UNCHANGED pc

\* r2 = cs.commit(), r2 being the variable of slot 2
Commit ==
    LET out == BaseChangeset_commit(registry, objs, cs)
    IN  /\ cs # NoCs
        /\ objs' = IF out.err = "ok" THEN [out.objs EXCEPT ![2] = out.obj] ELSE out.objs
        /\ cs' = out.cs
        /\ ret' = CsRet("commit", "", NoneV, out)
        /\ UNCHANGED <<registry, pc>>

\* cs.f
Get(f) ==
    /\ cs # NoCs
    /\ Called("get", f, NoneV, ChangesetField__get__(registry, objs, cs, f))
    /\ UNCHANGED pc

\* cs.f = value
Set(f, value) ==
    /\ cs # NoCs
    /\ Called("set", f, value, ChangesetField__set__(objs, cs, f, value))
    /\ UNCHANGED pc

\* `with cs:` reaching cs.__enter__(), or a direct call of it; the body is
\* entered when the with statement's call returns
Enter ==
    LET out == BaseChangeset__enter__(objs, cs)
    IN  /\ cs # NoCs
        /\ Called("__enter__", "", NoneV, out)
        /\ pc' = IF pc = "none" /\ out.err = "ok" THEN "body" ELSE pc

\* the with statement leaving its body, normally or by an exception raised
\* in it (any failed call of the body), and calling cs.__exit__(...); or a
\* direct call of it
Exit ==
    /\ cs # NoCs
    /\ Called("__exit__", "", NoneV, BaseChangeset__exit__(objs, cs))
    /\ pc' = IF pc = "body" THEN "after" ELSE pc

Next ==
    \/ \E args \in SeqsUpTo(CsVals, 1), kwargs \in Dicts(KwargKeys, CsVals) :
          BuildChangeset(args, kwargs)
    \/ Open
    \/ Close
    \/ Commit
    \/ \E f \in OriginalFieldNames : Get(f)
    \/ \E f \in OriginalFieldNames, value \in CsVals : Set(f, value)
    \/ Enter
    \/ Exit

Spec == Init /\ [][Next]_vars

\* the original record's stored value of a field
OriginalValue(f) ==
    LET names == FieldNames(registry[objs[1].cls].fields)
    IN  objs[1].vals[CHOOSE i \in DOMAIN names : names[i] = f]

\* C2: no changeset operation changes a field value of the original record
\* r, whatever is staged (by build_changeset or by writes while OPEN);
\* build_changeset stages exactly the overrides it is given; commit() in
\* state OPEN returns a new record of r's type whose every field is the
\* staged value (up to the list-to-tuple projection of construction) when
\* one is staged and r's value otherwise.
C2_ChangesetIsolation ==
    [][/\ objs'[1] = objs[1]
       /\ (ret'.op = "build_changeset" /\ ret'.err = "ok") =>
             LET names == FieldNames(registry[objs[1].cls].fields)
             IN  /\ cs'.original = 1
                 /\ DOMAIN cs'.diff =
                       DOMAIN ret'.kwargs
                          \cup {names[i] : i \in 1..Min(Len(ret'.args), Len(names))}
                 /\ \A i \in DOMAIN names :
                       names[i] \in DOMAIN cs'.diff =>
                          cs'.diff[names[i]] = Supplied(ret', names, i)
       /\ (ret'.op = "commit" /\ cs.state = "OPEN") =>
             LET names == FieldNames(registry[objs[1].cls].fields)
                 new == objs'[2]
             IN  /\ ret'.err = "ok"
                 /\ ret'.obj = new
                 /\ new.cls = objs[1].cls
                 /\ Len(new.vals) = Len(names)
                 /\ \A i \in DOMAIN names :
                       IF names[i] \in DOMAIN cs.diff
                       THEN _eq(new.vals[i], cs.diff[names[i]])
                       ELSE new.vals[i] = objs[1].vals[i]
      ]_vars

\* a commit returned a record that differs from the original in a field
\* staged by a write, another field keeping the original's value
C2_Witness ==
    /\ ret.op = "commit" /\ ret.err = "ok"
    /\ objs[1].cls = "A" /\ DOMAIN cs.diff = {"x"}
    /\ objs[2].vals[1] # objs[1].vals[1]
    /\ objs[2].vals[2] = objs[1].vals[2]

StateRank(state) ==
    CASE state = "INITIALIZED" -> 0
      [] state = "OPEN" -> 1
      [] state = "CLOSED" -> 2

\* C3: over any sequence of open(), close(), commit(), __enter__ and
\* __exit__ the state only moves INITIALIZED -> OPEN -> CLOSED, one step at
\* a time and never back; open() (and __enter__) succeeds exactly in
\* INITIALIZED and moves to OPEN; close() and commit() succeed exactly in
\* OPEN and move to CLOSED; such a call made in any other state fails and
\* leaves the state and the staged edits unchanged; __exit__ closes an OPEN
\* changeset and changes nothing otherwise; none of the calls changes the
\* staged edits; CLOSED is terminal.
C3_ChangesetLifecycle ==
    [][cs # NoCs =>
        /\ StateRank(cs.state) <= StateRank(cs'.state)
        /\ StateRank(cs'.state) <= StateRank(cs.state) + 1
        /\ cs.state = "CLOSED" => cs'.state = "CLOSED"
        /\ ret'.op \in {"open", "__enter__"} =>
              /\ (ret'.err = "ok") <=> (cs.state = "INITIALIZED")
              /\ ret'.err = "ok" => cs'.state = "OPEN"
        /\ ret'.op \in {"close", "commit"} =>
              /\ (ret'.err = "ok") <=> (cs.state = "OPEN")
              /\ ret'.err = "ok" => cs'.state = "CLOSED"
        /\ ret'.op = "__exit__" =>
              cs'.state = IF cs.state = "OPEN" THEN "CLOSED" ELSE cs.state
        /\ ret'.op \in {"open", "__enter__", "close", "commit", "__exit__"} =>
              /\ cs'.diff = cs.diff
              /\ cs'.original = cs.original
              /\ ret'.err # "ok" => cs' = cs
      ]_vars

\* a changeset with a staged edit was closed, and a later open() failed
C3_Witness ==
    /\ cs.state = "CLOSED" /\ DOMAIN cs.diff # {}
    /\ ret.op = "open" /\ ret.err # "ok"

\* C4: reading cs.f while OPEN returns the staged value of f when one is
\* staged and the original record's value otherwise; reading or writing
\* cs.f while INITIALIZED or CLOSED fails and changes neither the state nor
\* the staged edits; writing cs.f while OPEN changes only the staged value
\* of f.
C4_FieldAccess ==
    [][/\ ret'.op = "get" =>
             /\ (ret'.err = "ok") <=> (cs.state = "OPEN")
             /\ cs' = cs /\ objs' = objs
             /\ ret'.err = "ok" =>
                   ret'.val = IF ret'.f \in DOMAIN cs.diff
                              THEN cs.diff[ret'.f]
                              ELSE OriginalValue(ret'.f)
       /\ ret'.op = "set" =>
             /\ (ret'.err = "ok") <=> (cs.state = "OPEN")
             /\ objs' = objs
             /\ cs'.state = cs.state /\ cs'.original = cs.original
             /\ ret'.err # "ok" => cs' = cs
             /\ ret'.err = "ok" =>
                   /\ DOMAIN cs'.diff = DOMAIN cs.diff \cup {ret'.f}
                   /\ cs'.diff[ret'.f] = ret'.arg
                   /\ \A g \in DOMAIN cs.diff \ {ret'.f} : cs'.diff[g] = cs.diff[g]
      ]_vars

\* a read of a staged field returned the staged value, which is not the
\* original's, while another field is not staged
C4_Witness ==
    /\ ret.op = "get" /\ ret.err = "ok" /\ cs.state = "OPEN"
    /\ ret.f \in DOMAIN cs.diff /\ DOMAIN cs.diff # OriginalFieldNames
    /\ ret.val = cs.diff[ret.f] /\ ret.val # OriginalValue(ret.f)

\* C5: a changeset entered by a with statement from INITIALIZED is OPEN when
\* the body starts, and CLOSED once the statement is left, whether the body
\* ended normally, raised, or had already called commit() or close(); in
\* the last case leaving raises no error.  It is never OPEN after the scope.
C5_ScopedClose ==
    /\ (pc = "body" /\ ret.op = "__enter__" /\ ret.err = "ok") => cs.state = "OPEN"
    /\ pc = "body" => cs.state \in {"OPEN", "CLOSED"}
    /\ pc = "after" => cs.state = "CLOSED"
    /\ ret.op = "__exit__" => ret.err = "ok"

\* the scope was left after its body had committed
C5_Witness ==
    /\ pc = "after" /\ ret.op = "__exit__" /\ objs[2] # NoObj

----------------------------------------------------------------------------
(* Declaration run: record types are declared one after the other, each    *)
(* from one or two of the classes declared before it.                      *)

ClassNames == <<"K1", "K2", "K3", "K4", "K5">>

\* the `fields` lists declared: every list of up to MaxFields of the names
\* x and y, and each other name alone
DeclaredLists ==
    {[i \in DOMAIN names |-> Field(names[i], "big_endian_int")] :
        names \in SeqsUpTo({"x", "y"}, MaxFields)
                    \cup {<<n>> : n \in {"_x", "1x", "x-y", ""}}}

\* the classes a class is derived from, itself included
RECURSIVE AncestorsOf(_, _)
AncestorsOf(reg, c) ==
    IF c \notin DOMAIN reg THEN {c}
    ELSE {c} \cup UNION {AncestorsOf(reg, reg[c].bases[i]) : i \in DOMAIN reg[c].bases}

\* the base lists type() accepts of the class statement: one class, or two
\* of which the first is not an ancestor of the second (no consistent
\* method resolution order exists otherwise)
BaseLists(reg) ==
    {<<b>> : b \in DOMAIN reg}
    \cup {pair \in (DOMAIN reg) \X (DOMAIN reg) : pair[1] \notin AncestorsOf(reg, pair[2])}

DeclaredCount == Cardinality(DOMAIN registry) - 1

InitDecl ==
    /\ registry = EmptyRegistry
    /\ objs = NoObjs
    /\ cs = NoCs
    /\ pc = "none"
    /\ ret = NoRet

\* class <name>(*bases): [fields = declared], the next class statement of
\* the module; a class statement that raised ends the run
DeclareClass(bases, declares_fields, declared) ==
    LET name == ClassNames[DeclaredCount + 1]
        made == SerializableBase__new__(registry, bases, declares_fields, declared)
    IN  /\ registry' = Declare(registry, name, bases, declares_fields, declared)
        /\ ret' = [op |-> "class", name |-> name, bases |-> bases,
                   declares_fields |-> declares_fields, fields |-> declared,
                   err |-> made.err]
        /\ UNCHANGED <<objs, cs, pc>>

\* the module has another class statement to run
CanDeclare ==
    /\ DeclaredCount < MaxClasses
    /\ ret.op = "class" => ret.err = "ok"

NextDecl ==
    \/ /\ CanDeclare
       /\ \E bases \in BaseLists(registry), declared \in DeclaredLists :
             DeclareClass(bases, TRUE, declared)
    \/ /\ CanDeclare
       /\ \E bases \in BaseLists(registry) : DeclareClass(bases, FALSE, <<>>)

SpecDecl == InitDecl /\ [][NextDecl]_vars

\* the names of the declaration run that are bare identifiers
BareIdentifiers == {"x", "y", "_x"}

\* C9: declaring a record type with an explicit field list succeeds exactly
\* when the declared names are pairwise distinct, each is a valid bare
\* identifier, and they include every field name of every parent schema;
\* otherwise the declaration fails and no type is created.
C9_DeclarationValidation ==
    (ret.op = "class" /\ ret.declares_fields) =>
        LET names == FieldNames(ret.fields)
            parents == {b \in SeqRange(ret.bases) : registry[b].has_meta}
            distinct == \A i, j \in DOMAIN names : i # j => names[i] # names[j]
            identifiers == \A i \in DOMAIN names : names[i] \in BareIdentifiers
            superset == \A b \in parents :
                           SeqRange(FieldNames(registry[b].fields)) \subseteq SeqRange(names)
        IN  /\ (ret.err = "ok") <=> (distinct /\ identifiers /\ superset)
            /\ ret.err = "ok" =>
                  /\ ret.name \in DOMAIN registry
                  /\ registry[ret.name].has_meta
                  /\ registry[ret.name].fields = ret.fields
            /\ ret.err # "ok" => ret.name \notin DOMAIN registry

\* a class with two parent schemas was declared, its fields a superset of
\* both parents' differing field sets
C9_Witness ==
    /\ ret.op = "class" /\ ret.declares_fields /\ ret.err = "ok"
    /\ Len(ret.bases) = 2
    /\ registry[ret.bases[1]].has_meta /\ registry[ret.bases[2]].has_meta
    /\ FieldNames(registry[ret.bases[1]].fields) = <<"x">>
    /\ FieldNames(registry[ret.bases[2]].fields) = <<"y">>

----------------------------------------------------------------------------
(* Wire items and sedes.  A wire item is [k, b, items]: the byte string b  *)
(* (k = "bytes") or the sequence of wire items (k = "seq").  The leaf      *)
(* sedes and the list sedes live in modules outside this model's source    *)
(* (rlp/sedes/big_endian_int.py, rlp/sedes/lists.py); they are modelled    *)
(* from the sedes contract.  A sedes call returns [err, val, exc]: the     *)
(* error class raised ("ok" for none), the value, the exception object.    *)

BytesW(b) == [k |-> "bytes", b |-> b, items |-> <<>>]
SeqW(items) == [k |-> "seq", b |-> <<>>, items |-> items]
NoWire == [k |-> "None", b |-> <<>>, items |-> <<>>]

\* the `field` of a record-level error that names no field (None)
NoField == "<None>"
\* the `message` argument left out (None)
NoMessage == "<None>"

\* a list-level error: ListSerializationError / ListDeserializationError
\* with its index (an int, or None) and element_exception (a class name, or
\* "None")
ListError(type, index, element_exception) ==
    [type |-> type, index |-> index, element_exception |-> element_exception]
NoListError == ListError("None", NoneV, "None")

\* an exception object as the record level sees it
Exc(type, field, list_exception) ==
    [type |-> type, field |-> field, list_exception |-> list_exception]
NoExc == Exc("None", NoField, NoListError)

SedesResult(err, val, list_exception) ==
    [err |-> err, val |-> val, list_exception |-> list_exception]

RECURSIVE int_to_big_endian(_)
int_to_big_endian(i) ==
    IF i = 0 THEN <<>> ELSE int_to_big_endian(i \div 256) \o <<i % 256>>

RECURSIVE big_endian_to_int(_)
big_endian_to_int(b) ==
    IF Len(b) = 0 THEN 0
    ELSE 256 * big_endian_to_int(SubSeq(b, 1, Len(b) - 1)) + b[Len(b)]

\* big_endian_int.serialize: a non-negative integer as its minimal
\* big-endian byte string
big_endian_int_serialize(obj) ==
    IF obj.k # "int" \/ obj.n < 0
    THEN SedesResult("SerializationError", NoWire, NoListError)
    ELSE SedesResult("ok", BytesW(int_to_big_endian(obj.n)), NoListError)

\* big_endian_int.deserialize: rejects what is no byte string and a byte
\* string with a leading zero
big_endian_int_deserialize(serial) ==
    IF serial.k # "bytes" \/ (Len(serial.b) > 1 /\ serial.b[1] = 0)
    THEN SedesResult("DeserializationError", NoneV, NoListError)
    ELSE SedesResult("ok", IntV(big_endian_to_int(serial.b)), NoListError)

\* CountableList(big_endian_int).serialize: any sequence of integers
int_list_serialize(obj) ==
    IF ~IsSeqV(obj)
    THEN SedesResult("ListSerializationError", NoWire, NoListError)
    ELSE LET each == [i \in 1..Len(obj.items) |-> big_endian_int_serialize(obj.items[i])]
         IN  IF \E i \in DOMAIN each : each[i].err # "ok"
             THEN SedesResult("ListSerializationError", NoWire, NoListError)
             ELSE SedesResult("ok", SeqW([i \in DOMAIN each |-> each[i].val]), NoListError)

\* CountableList(big_endian_int).deserialize: the tuple of the integers
int_list_deserialize(serial) ==
    IF serial.k # "seq"
    THEN SedesResult("ListDeserializationError", NoneV, NoListError)
    ELSE LET each == [i \in 1..Len(serial.items) |->
                        big_endian_int_deserialize(serial.items[i])]
         IN  IF \E i \in DOMAIN each : each[i].err # "ok"
             THEN SedesResult("ListDeserializationError", NoneV, NoListError)
             ELSE SedesResult("ok", TupleV([i \in DOMAIN each |-> each[i].val]), NoListError)

Sedes_serialize(sedes, obj) ==
    IF sedes = "big_endian_int" THEN big_endian_int_serialize(obj)
    ELSE int_list_serialize(obj)

Sedes_deserialize(sedes, serial) ==
    IF sedes = "big_endian_int" THEN big_endian_int_deserialize(serial)
    ELSE int_list_deserialize(serial)

\* the first position of a sequence of sedes results that failed
FirstFailed(each) ==
    CHOOSE i \in DOMAIN each :
        each[i].err # "ok" /\ \A j \in 1..(i - 1) : each[j].err = "ok"

\* List(sedes).serialize(values): a wrong number of values is a list error
\* without index; the first element that fails is wrapped into a list error
\* carrying its index (from 0) and the cause
List_serialize(sedes, values) ==
    IF Len(values) # Len(sedes)
    THEN SedesResult("ListSerializationError", NoWire,
                     ListError("ListSerializationError", NoneV, "None"))
    ELSE LET each == [i \in DOMAIN sedes |-> Sedes_serialize(sedes[i], values[i])]
         IN  IF \E i \in DOMAIN each : each[i].err # "ok"
             THEN SedesResult("ListSerializationError", NoWire,
                              ListError("ListSerializationError",
                                        IntV(FirstFailed(each) - 1),
                                        each[FirstFailed(each)].err))
             ELSE SedesResult("ok", SeqW([i \in DOMAIN each |-> each[i].val]), NoListError)

\* List(sedes).deserialize(serial): a leaf, or a sequence of another
\* length, is a list error without index; element failures as above
List_deserialize(sedes, serial) ==
    IF serial.k # "seq" \/ Len(serial.items) # Len(sedes)
    THEN SedesResult("ListDeserializationError", <<>>,
                     ListError("ListDeserializationError", NoneV, "None"))
    ELSE LET each == [i \in DOMAIN sedes |-> Sedes_deserialize(sedes[i], serial.items[i])]
         IN  IF \E i \in DOMAIN each : each[i].err # "ok"
             THEN SedesResult("ListDeserializationError", <<>>,
                              ListError("ListDeserializationError",
                                        IntV(FirstFailed(each) - 1),
                                        each[FirstFailed(each)].err))
             ELSE SedesResult("ok", [i \in DOMAIN each |-> each[i].val], NoListError)

----------------------------------------------------------------------------
(* Record-level errors: rlp/exceptions.py.  A constructor returns [err,    *)
(* exc]: err is "ok" and exc the exception built, or err is the error the  *)
(* constructor itself raised.  `names` is sedes._meta.field_names.         *)

\* field_names[index] taken one position too far
FieldAtNext(names, index) ==
    IF index.k # "int" THEN [err |-> "TypeError", field |-> NoField]
    ELSE IF index.n + 2 \notin DOMAIN names THEN [err |-> "IndexError", field |-> NoField]
    ELSE [err |-> "ok", field |-> names[index.n + 2]]

\* field_names[index] of Python: index counts from 0, a None index is a
\* TypeError, an index outside the tuple an IndexError
FieldAt(names, index) ==
    IF index.k # "int" THEN [err |-> "TypeError", field |-> NoField]
    ELSE IF index.n + 1 \notin DOMAIN names THEN [err |-> "IndexError", field |-> NoField]
    ELSE [err |-> "ok", field |-> names[index.n + 1]]

\* ObjectSerializationError.__init__(message, obj, sedes, list_exception)
ObjectSerializationError__init__(message, names, list_exception) ==
    IF message = NoMessage
    THEN IF list_exception = NoListError
         THEN [err |-> "AssertionError", exc |-> NoExc]
         ELSE IF list_exception.element_exception = "None"
         THEN [err |-> "ok",
               exc |-> Exc("ObjectSerializationError", NoField, list_exception)]
         ELSE LET at == FieldAt(names, list_exception.index)
              IN  IF at.err # "ok" THEN [err |-> at.err, exc |-> NoExc]
                  ELSE [err |-> "ok",
                        exc |-> Exc("ObjectSerializationError", at.field, list_exception)]
    ELSE [err |-> "ok", exc |-> Exc("ObjectSerializationError", NoField, list_exception)]

\* ObjectDeserializationError.__init__(message, serial, sedes,
\* list_exception): `field` is assigned only when the message is empty or
\* None, and read in every case
ObjectDeserializationError__init__(message, names, list_exception) ==
    IF message = NoMessage \/ message = ""
    THEN IF list_exception = NoListError
         THEN [err |-> "AssertionError", exc |-> NoExc]
         ELSE IF list_exception.element_exception = "None"
         THEN [err |-> "ok",
               exc |-> Exc("ObjectDeserializationError", NoField, list_exception)]
         ELSE LET at == FieldAt(names, list_exception.index)
              IN  IF at.err # "ok" THEN [err |-> at.err, exc |-> NoExc]
                  ELSE [err |-> "ok",
                        exc |-> Exc("ObjectDeserializationError", at.field, list_exception)]
    ELSE [err |-> "UnboundLocalError", exc |-> NoExc]

----------------------------------------------------------------------------
(* BaseSerializable.serialize and deserialize.  A call returns [err, val,  *)
(* obj, exc]: the class of the error raised ("ok" for none), the wire item *)
(* or the record returned, and the exception object raised.                *)

SerResult(err, val, obj, exc) == [err |-> err, val |-> val, obj |-> obj, exc |-> exc]

\* cls.serialize(obj), obj being a sequence of values (a record iterates
\* over its field values)
BaseSerializable_serialize(reg, cls, values) ==
    LET done == List_serialize(FieldSedes(reg[cls].fields), values)
        raised == ObjectSerializationError__init__(NoMessage, FieldNames(reg[cls].fields),
                                                   done.list_exception)
    IN  IF done.err = "ok" THEN SerResult("ok", done.val, NoObj, NoExc)
        ELSE IF raised.err # "ok" THEN SerResult(raised.err, NoWire, NoObj, NoExc)
        ELSE SerResult("ObjectSerializationError", NoWire, NoObj, raised.exc)

\* Python's f(**a, **b): a key in both is a TypeError
MergedKwargs(a, b) ==
    IF DOMAIN a \cap DOMAIN b # {} THEN [err |-> "TypeError: multiple values", val |-> EmptyDict]
    ELSE [err |-> "ok",
          val |-> [key \in DOMAIN a \cup DOMAIN b |-> IF key \in DOMAIN a THEN a[key] ELSE b[key]]]

\* cls.deserialize(serial, **extra_kwargs)
BaseSerializable_deserialize(reg, cls, serial, extra_kwargs) ==
    LET names == FieldNames(reg[cls].fields)
        done == List_deserialize(FieldSedes(reg[cls].fields), serial)
        raised == ObjectDeserializationError__init__(NoMessage, names, done.list_exception)
        args_as_kwargs == merge_args_to_kwargs(done.val, EmptyDict, names, FALSE)
        all_kwargs == MergedKwargs(args_as_kwargs.val, extra_kwargs)
        made == BaseSerializable__init__(reg, cls, <<>>, all_kwargs.val)
    IN  IF done.err # "ok"
        THEN IF raised.err # "ok" THEN SerResult(raised.err, NoWire, NoObj, NoExc)
             ELSE SerResult("ObjectDeserializationError", NoWire, NoObj, raised.exc)
        ELSE IF args_as_kwargs.err # "ok" THEN SerResult(args_as_kwargs.err, NoWire, NoObj, NoExc)
        ELSE IF all_kwargs.err # "ok" THEN SerResult(all_kwargs.err, NoWire, NoObj, NoExc)
        ELSE SerResult(made.err, NoWire, made.obj, NoExc)

----------------------------------------------------------------------------
(* Serialization run: a record is constructed, serialized by its own or by *)
(* another record type, and wire items are deserialized: the one just      *)
(* produced (into slot 2), or one received from outside.                   *)

SedesInts == {IntV(0), IntV(1), IntV(256), IntV(-1)}

SedesCalls ==
    {[cls |-> "A", args |-> <<a, b>>, kwargs |-> EmptyDict] : a, b \in SedesInts}
    \cup {[cls |-> "S", args |-> <<v>>, kwargs |-> EmptyDict] :
            v \in {ListV(<<>>), ListV(<<IntV(1), IntV(256)>>), ListV(<<IntV(1), IntV(-1)>>),
                   TupleV(<<IntV(0)>>), IntV(1)}}
    \cup {[cls |-> "T", args |-> <<a, v, b>>, kwargs |-> EmptyDict] :
            a \in {IntV(1), IntV(-1)},
            v \in {ListV(<<IntV(256)>>), ListV(<<IntV(-1)>>), IntV(1)},
            b \in {IntV(0), IntV(-1)}}
    \cup {[cls |-> "Empty", args |-> <<>>, kwargs |-> EmptyDict]}

\* wire items received from outside: a leaf, sequences of each length, with
\* well-formed and ill-formed elements at each position
WireInputs ==
    {BytesW(<<1>>),
     SeqW(<<>>),
     SeqW(<<BytesW(<<1>>)>>),
     SeqW(<<SeqW(<<BytesW(<<1>>), BytesW(<<>>)>>)>>),
     SeqW(<<BytesW(<<1>>), BytesW(<<1, 0>>)>>),
     SeqW(<<BytesW(<<1>>), BytesW(<<0, 1>>)>>),
     SeqW(<<BytesW(<<0, 0>>), BytesW(<<0, 1>>)>>),
     SeqW(<<BytesW(<<1>>), SeqW(<<BytesW(<<2>>)>>), BytesW(<<>>)>>),
     SeqW(<<BytesW(<<1>>), SeqW(<<BytesW(<<2>>)>>), BytesW(<<0, 0>>)>>),
     SeqW(<<BytesW(<<1>>), BytesW(<<2>>), BytesW(<<3>>)>>)}

\* auxiliary named values given to deserialize
ExtraKwargs == {EmptyDict, [key \in {"aux"} |-> IntV(1)]}

RecordClasses == {c \in DOMAIN RecordRegistry : RecordRegistry[c].has_meta}

SerRet(op, cls, of, serial, extra, out) ==
    [op |-> op, cls |-> cls, of |-> of, serial |-> serial, extra |-> extra,
     err |-> out.err, exc |-> out.exc, val |-> out.val, obj |-> out.obj]

\* cls.serialize(r), r being the record of slot 1
Serialize(cls) ==
    /\ objs[1] # NoObj
    /\ ret' = SerRet("serialize", cls, 1, NoWire, EmptyDict,
                     BaseSerializable_serialize(registry, cls, objs[1].vals))
    /\ UNCHANGED <<registry, objs, cs, pc>>

\* r2 = cls.deserialize(serial, **extra), r2 being the variable of slot 2;
\* `of` is the slot of the record the wire item was serialized from, 0 for
\* a wire item from outside
Deserialize(cls, serial, extra, of) ==
    LET out == BaseSerializable_deserialize(registry, cls, serial, extra)
    IN  /\ objs[2] = NoObj
        /\ objs' = IF out.err = "ok" THEN [objs EXCEPT ![2] = out.obj] ELSE objs
        /\ ret' = SerRet("deserialize", cls, of, serial, extra, out)
        /\ UNCHANGED <<registry, cs, pc>>

NextSedes ==
    \/ \E call \in SedesCalls : New(1, call)
    \/ \E cls \in RecordClasses : Serialize(cls)
    \/ /\ ret.op = "serialize" /\ ret.err = "ok" /\ ret.cls = objs[1].cls
       /\ Deserialize(ret.cls, ret.val, EmptyDict, 1)
    \/ /\ ret.op \in {"", "discard"}
       /\ \E cls \in RecordClasses, serial \in WireInputs, extra \in ExtraKwargs :
             Deserialize(cls, serial, extra, 0)
    \/ Discard

SpecSedes == InitCons /\ [][NextSedes]_vars

\* C6: deserialize(serialize(r)) succeeds and returns a record equal to r:
\* == returns True for the two, and they have the same type and the same
\* field values.
C6_RoundTrip ==
    (ret.op = "deserialize" /\ ret.of = 1) =>
        /\ ret.err = "ok"
        /\ objs[2] = ret.obj
        /\ SameTypeAndFields(objs[2], objs[1])
        /\ LET compared == BaseSerializable__eq__(objs, 2, 1)
           IN  compared.err = "ok" /\ compared.val

\* a record of three fields, one of them a list, came back from its own
\* serialization
C6_Witness ==
    /\ ret.op = "deserialize" /\ ret.of = 1 /\ ret.err = "ok"
    /\ objs[1].cls = "T" /\ objs[2].cls = "T"
    /\ objs[2].vals[1] # objs[2].vals[3]
    /\ Len(objs[2].vals[2].items) > 0

\* the positions whose sedes rejects the value, or the wire item, given
RejectedValues(sedes, values) ==
    {i \in DOMAIN sedes : Sedes_serialize(sedes[i], values[i]).err # "ok"}
RejectedItems(sedes, items) ==
    {i \in DOMAIN sedes : Sedes_deserialize(sedes[i], items[i]).err # "ok"}
Least(S) == CHOOSE i \in S : \A j \in S : i <= j

\* a record-level error that names field names[i] for the list error of
\* position i (counted from 1 here, from 0 in the list error)
NamesField(exc, names, i, list_type) ==
    /\ exc.field = names[i]
    /\ exc.list_exception.type = list_type
    /\ exc.list_exception.index = IntV(i - 1)
    /\ exc.list_exception.element_exception # "None"

\* a record-level error for a list error tied to no element
NamesNoField(exc, list_type) ==
    /\ exc.field = NoField
    /\ exc.list_exception.type = list_type
    /\ exc.list_exception.index = NoneV
    /\ exc.list_exception.element_exception = "None"

\* C10: when serialize (deserialize) of a record type fails because the
\* list sedes raised an index-tagged error for position i, what is raised
\* is an ObjectSerializationError (ObjectDeserializationError) whose field
\* is the i-th field name and whose list_exception is that list error; when
\* the list error is tied to no element (wrong number of items, not a list)
\* the field is None.
C10_FieldAttribution ==
    LET names == FieldNames(registry[ret.cls].fields)
        sedes == FieldSedes(registry[ret.cls].fields)
    IN  /\ ret.op = "serialize" =>
              LET values == objs[1].vals
              IN  IF Len(values) # Len(sedes)
                  THEN /\ ret.err = "ObjectSerializationError"
                       /\ ret.exc.type = ret.err
                       /\ NamesNoField(ret.exc, "ListSerializationError")
                  ELSE IF RejectedValues(sedes, values) # {}
                  THEN /\ ret.err = "ObjectSerializationError"
                       /\ ret.exc.type = ret.err
                       /\ NamesField(ret.exc, names, Least(RejectedValues(sedes, values)),
                                     "ListSerializationError")
                  ELSE ret.err = "ok"
        /\ ret.op = "deserialize" =>
              IF ret.serial.k # "seq" \/ Len(ret.serial.items) # Len(sedes)
              THEN /\ ret.err = "ObjectDeserializationError"
                   /\ ret.exc.type = ret.err
                   /\ NamesNoField(ret.exc, "ListDeserializationError")
              ELSE IF RejectedItems(sedes, ret.serial.items) # {}
              THEN /\ ret.err = "ObjectDeserializationError"
                   /\ ret.exc.type = ret.err
                   /\ NamesField(ret.exc, names, Least(RejectedItems(sedes, ret.serial.items)),
                                 "ListDeserializationError")
              ELSE ret.err # "ObjectDeserializationError"

\* serializing a three-field record failed in its second field while the
\* third is not serializable either
C10_Witness ==
    /\ ret.op = "serialize" /\ ret.cls = "T" /\ objs[1].cls = "T"
    /\ ret.err = "ObjectSerializationError"
    /\ ret.exc.field = "y"
    /\ RejectedValues(FieldSedes(registry["T"].fields), objs[1].vals) = {2, 3}

\* C11: deserialize(serial, **extra) on a well-formed serial succeeds also
\* when extra holds named values that are not fields of the record type, and
\* the fields of the record returned are the deserialized values.
C11_AuxiliaryFieldsAccepted ==
    LET names == FieldNames(registry[ret.cls].fields)
        done == List_deserialize(FieldSedes(registry[ret.cls].fields), ret.serial)
    IN  (/\ ret.op = "deserialize"
         /\ done.err = "ok"
         /\ DOMAIN ret.extra \cap {names[i] : i \in DOMAIN names} = {}) =>
            /\ ret.err = "ok"
            /\ ret.obj.cls = ret.cls
            /\ ret.obj.vals = done.val

\* the same without auxiliary values: holds, and shows that the auxiliary
\* values alone make the call fail
C11_WithoutAuxiliaryFields ==
    LET done == List_deserialize(FieldSedes(registry[ret.cls].fields), ret.serial)
    IN  (ret.op = "deserialize" /\ done.err = "ok" /\ ret.extra = EmptyDict) =>
            /\ ret.err = "ok"
            /\ ret.obj.cls = ret.cls
            /\ ret.obj.vals = done.val

----------------------------------------------------------------------------
(* Concurrent readers of one record's hash.  Each thread runs __hash__ in  *)
(* the steps the interpreter may interleave: test the cache, compute       *)
(* hash(tuple(self)) into a local, store the local into the cache, read    *)
(* the cache to return it.  A thread may also pickle the record            *)
(* (__getstate__).  The record is in slot 1; pc and ret are per thread.    *)

MaxThreads == 2
Threads == 1..MaxThreads

HashCalls ==
    {[cls |-> "A", args |-> <<IntV(1), IntV(-1)>>],
     [cls |-> "A", args |-> <<IntV(-2), IntV(1)>>],
     [cls |-> "S", args |-> <<ListV(<<IntV(1), IntV(-1)>>)>>],
     [cls |-> "S", args |-> <<TupleV(<<ListV(<<IntV(1)>>)>>)>>],
     [cls |-> "T", args |-> <<IntV(1), ListV(<<IntV(-1)>>), IntV(-1)>>],
     [cls |-> "Empty", args |-> <<>>]}

HashRet(op, local, err, val, state) ==
    [op |-> op, local |-> local, err |-> err, val |-> val, state |-> state]
NoHashRet == HashRet("", NoneV, "ok", NoneV, NoObj)

InitHash ==
    /\ registry = RecordRegistry
    /\ \E call \in HashCalls :
          objs = [NoObjs EXCEPT ![1] =
                    BaseSerializable__init__(RecordRegistry, call.cls, call.args, EmptyDict).obj]
    /\ cs = NoCs
    /\ pc = [t \in Threads |-> "idle"]
    /\ ret = [t \in Threads |-> NoHashRet]

\* hash(r) is called
HashCall(t) ==
    /\ pc[t] = "idle"
    /\ pc' = [pc EXCEPT ![t] = "test"]
    /\ ret' = [ret EXCEPT ![t] = HashRet("__hash__", NoneV, "ok", NoneV, NoObj)]
    /\ UNCHANGED <<registry, objs, cs>>

\* if self._hash_cache is None
HashTest(t) ==
    /\ pc[t] = "test"
    /\ pc' = [pc EXCEPT ![t] = IF objs[1]._hash_cache = NoneV THEN "compute" ELSE "return"]
    /\ UNCHANGED <<registry, objs, cs, ret>>

\* hash(tuple(self)), which raises for an unhashable field value
HashCompute(t) ==
    LET h == hash_tuple_self(objs[1])
    IN  /\ pc[t] = "compute"
        /\ IF h = HashError
           THEN /\ pc' = [pc EXCEPT ![t] = "done"]
                /\ ret' = [ret EXCEPT ![t].err = "TypeError: unhashable type"]
           ELSE /\ pc' = [pc EXCEPT ![t] = "store"]
                /\ ret' = [ret EXCEPT ![t].local = h]
        /\ UNCHANGED <<registry, objs, cs>>

\* self._hash_cache = <the hash computed>
HashStore(t) ==
    /\ pc[t] = "store"
    /\ objs' = [objs EXCEPT ![1]._hash_cache = ret[t].local]
    /\ pc' = [pc EXCEPT ![t] = "return"]
    /\ UNCHANGED <<registry, cs, ret>>

\* return self._hash_cache
HashReturn(t) ==
    /\ pc[t] = "return"
    /\ ret' = [ret EXCEPT ![t].val = objs[1]._hash_cache]
    /\ pc' = [pc EXCEPT ![t] = "done"]
    /\ UNCHANGED <<registry, objs, cs>>

\* r.__getstate__(), as pickling calls it
GetState(t) ==
    /\ pc[t] = "idle"
    /\ ret' = [ret EXCEPT ![t] = HashRet("__getstate__", NoneV, "ok", NoneV,
                                         BaseSerializable__getstate__(objs[1]))]
    /\ pc' = [pc EXCEPT ![t] = "done"]
    /\ UNCHANGED <<registry, objs, cs>>

\* the caller goes on to its next call
HashDone(t) ==
    /\ pc[t] = "done"
    /\ pc' = [pc EXCEPT ![t] = "idle"]
    /\ ret' = [ret EXCEPT ![t] = NoHashRet]
    /\ UNCHANGED <<registry, objs, cs>>

NextHash ==
    \E t \in Threads :
        \/ HashCall(t)
        \/ HashTest(t)
        \/ HashCompute(t)
        \/ HashStore(t)
        \/ HashReturn(t)
        \/ GetState(t)
        \/ HashDone(t)

SpecHash == InitHash /\ [][NextHash]_vars

\* the hash of the record's field-value tuple
TupleHash == PyHash(TupleV(objs[1].vals))

\* C12: under any interleaving of concurrent hash computations on one
\* record, the cache is empty or holds the hash of the field-value tuple,
\* every computation that has finished returned that hash (or, where the
\* tuple has no hash, raised the TypeError of hash()), and every thread
\* about to write the cache writes that same hash.
C12_HashCacheIdempotent ==
    /\ objs[1]._hash_cache = NoneV
         \/ (TupleHash # HashError /\ objs[1]._hash_cache = TupleHash)
    /\ \A t \in Threads :
          /\ (pc[t] = "done" /\ ret[t].op = "__hash__") =>
                IF TupleHash = HashError
                THEN ret[t].err = "TypeError: unhashable type"
                ELSE ret[t].err = "ok" /\ ret[t].val = TupleHash
          /\ pc[t] = "store" => (ret[t].local = TupleHash /\ TupleHash # HashError)
          /\ (pc[t] = "done" /\ ret[t].op = "__getstate__") =>
                /\ ret[t].state._hash_cache = NoneV
                /\ ret[t].state.vals = objs[1].vals
    /\ \A t, u \in Threads :
          (pc[t] = "store" /\ pc[u] = "store") => ret[t].local = ret[u].local

\* two threads found the cache empty; one has written it and returned, the
\* other is about to write it again
C12_Witness ==
    \E t, u \in Threads :
        /\ t # u
        /\ pc[t] = "done" /\ ret[t].op = "__hash__" /\ ret[t].err = "ok"
        /\ ret[t].val = objs[1]._hash_cache
        /\ pc[u] = "store"
        /\ Len(objs[1].vals) > 1

----------------------------------------------------------------------------
(* Record-level errors constructed directly: with or without a message,    *)
(* with or without a list error, for each record type.                     *)

Messages == {NoMessage, "", "m"}

ListErrorsOf(type, cause) ==
    {NoListError, ListError(type, NoneV, "None")}
    \cup {ListError(type, IntV(i), cause) : i \in 0..2}

ExcRet(op, message, cls, list_exception, out) ==
    [op |-> op, message |-> message, cls |-> cls, list_exception |-> list_exception,
     err |-> out.err, exc |-> out.exc]

\* ObjectSerializationError(message=message, sedes=cls, list_exception=...)
RaiseObjectSerializationError(message, cls, list_exception) ==
    /\ ret' = ExcRet("ObjectSerializationError", message, cls, list_exception,
                     ObjectSerializationError__init__(
                         message, FieldNames(registry[cls].fields), list_exception))
    /\ UNCHANGED <<registry, objs, cs, pc>>

\* ObjectDeserializationError(message=message, sedes=cls, list_exception=...)
RaiseObjectDeserializationError(message, cls, list_exception) ==
    /\ ret' = ExcRet("ObjectDeserializationError", message, cls, list_exception,
                     ObjectDeserializationError__init__(
                         message, FieldNames(registry[cls].fields), list_exception))
    /\ UNCHANGED <<registry, objs, cs, pc>>

NextExc ==
    \/ \E message \in Messages, cls \in RecordClasses,
          list_exception \in ListErrorsOf("ListSerializationError", "SerializationError") :
            RaiseObjectSerializationError(message, cls, list_exception)
    \/ \E message \in Messages, cls \in RecordClasses,
          list_exception \in ListErrorsOf("ListDeserializationError", "DeserializationError") :
            RaiseObjectDeserializationError(message, cls, list_exception)

SpecExc == InitCons /\ [][NextExc]_vars

\* C13: a record-level error constructed with an explicit message and no
\* list error is constructed successfully and has field None, in the
\* serialization and in the deserialization direction alike.
C13_MessageOnlyConstruction ==
    (/\ ret.op \in {"ObjectSerializationError", "ObjectDeserializationError"}
     /\ ret.message # NoMessage
     /\ ret.list_exception = NoListError) =>
        /\ ret.err = "ok"
        /\ ret.exc.type = ret.op
        /\ ret.exc.field = NoField

\* the serialization direction alone: holds
C13_SerializationDirection ==
    (/\ ret.op = "ObjectSerializationError"
     /\ ret.message # NoMessage
     /\ ret.list_exception = NoListError) =>
        /\ ret.err = "ok"
        /\ ret.exc.type = ret.op
        /\ ret.exc.field = NoField

\* the deserialization direction: no construction with a message and no
\* list error succeeds
C13_DeserializationDirection ==
    (/\ ret.op = "ObjectDeserializationError"
     /\ ret.message # NoMessage
     /\ ret.list_exception = NoListError) =>
        ret.err \in {"UnboundLocalError", "AssertionError"}

====
